---- MODULE Spec2Model ----
(***************************************************************************)
(* A model of arborist's in-memory authorization engine (AuthEngine), of   *)
(* its concurrent decision procedure CheckAuth and of the HTTP handlers of *)
(* Server, translated from src/arborist/server.go (the engine code starts  *)
(* at line 515), and of JSONResponse's error envelope.                     *)
(*                                                                         *)
(* Go pointers are modelled as indices into per-type object stores         *)
(* (mem.Role, mem.Permission, mem.Service, mem.Resource); Nil is the nil   *)
(* pointer.  Go maps are TLA+ functions, Go sets (map[*T]struct{}) are     *)
(* TLA+ sets of object indices.  A resource path "/a/b" is the tuple       *)
(* <<"a", "b">>, so that "is a hierarchical extension of" is a prefix      *)
(* test; the empty string is "" (for a path: << >>).                       *)
(***************************************************************************)
EXTENDS Integers, Sequences, FiniteSets, TLC

VARIABLES
    engine,     \* the AuthEngine struct: root_role, roles, resources, permissions, services
    mem,        \* the objects the engine's pointers point to, one store per Go type
    last,       \* the last engine operation called, the error and the object it returned
    crashed,    \* the panic that ended the process, or NoCrash
    call,       \* CheckAuth's own goroutine: where it is, its request, the response it returns
    tasks,      \* the goroutines CheckAuth starts, one per element of its `roles` slice
    waiter,     \* the goroutine that waits on the WaitGroup and closes done_channel
    wg,         \* the WaitGroup's counter
    response_channel,   \* chan authResponse with room for 1
    done_channel,       \* chan struct{} without buffer, only ever closed
    default_response,   \* the response every non-granting task appends to
    db,         \* the store behind Server.db: the names of the stored policies, resources, roles
    http,       \* the last request a handler of Server served: what it wrote and logged
    response    \* a JSONResponse, for addErrorJSON

engineVars == <<engine, mem>>
authVars == <<call, tasks, waiter, wg, response_channel, done_channel, default_response>>
serverVars == <<db, http, response>>
vars == <<engine, mem, last, crashed, call, tasks, waiter, wg,
          response_channel, done_channel, default_response, db, http, response>>

(***************************************************************************)
(* Bounds of the model.                                                    *)
(***************************************************************************)
MaxRoleObjs == 6      \* Role objects ever allocated, root included
MaxPermObjs == 3      \* Permission objects ever allocated
MaxServiceObjs == 3   \* Service objects ever allocated
MaxResourceObjs == 3  \* Resource objects allocated by the catalog operations

(***************************************************************************)
(* Values.                                                                 *)
(***************************************************************************)
Nil == 0                  \* the nil pointer
NoError == "nil"          \* a nil error
NoCrash == "running"
RoleAlreadyExists == "role already exists"
InvalidIdentifier == "invalid identifier"
InvalidAction == "invalid action"
NilDereference == "invalid memory address or nil pointer dereference"

EmptyMap == [k \in {} |-> Nil]
Put(m, k, v) == (k :> v) @@ m
Delete(m, k) == [x \in DOMAIN m \ {k} |-> m[x]]
Merge(m, additions) == additions @@ m

(***************************************************************************)
(* Wire-format descriptions (RoleJSON, PermissionJSON, ActionJSON).        *)
(***************************************************************************)
ActionJSON(service, resource, method) ==
    [Service |-> service, Resource |-> resource, Method |-> method]

PermissionJSON(id, action, constraints) ==
    [ID |-> id, Action |-> action, Constraints |-> constraints]

RoleJSON(id, tags, perms, subroles) ==
    [ID |-> id, Tags |-> tags, Permissions |-> perms, Subroles |-> subroles]

Prod == ("env" :> "prod")

P1 == PermissionJSON("p1", ActionJSON("data", <<"studies">>, "read"), EmptyMap)
P2 == PermissionJSON("p2", ActionJSON("data", <<"studies">>, "read"), Prod)
P3 == PermissionJSON("p3", ActionJSON("data", <<"studies">>, "read"), ("team" :> "a"))
PBad == PermissionJSON("pbad", ActionJSON("data", <<"studies">>, ""), EmptyMap)

Leaf(id) == RoleJSON(id, EmptyMap, << >>, << >>)

\* The role descriptions the model loads.
Descriptions ==
    { RoleJSON("X", ("team" :> "a"), <<P1>>, << >>),
      RoleJSON("Y", EmptyMap, <<P2>>, <<RoleJSON("Z", EmptyMap, <<P1>>, << >>)>>),
      RoleJSON("X", EmptyMap, << >>, <<RoleJSON("Y", EmptyMap, << >>, <<Leaf("X")>>)>>),
      RoleJSON("Z", EmptyMap, << >>, <<Leaf("Y"), Leaf("Y")>>),
      RoleJSON("Y", EmptyMap, << >>, <<Leaf("Z"), Leaf("")>>),
      RoleJSON("Z", EmptyMap, <<P1, PBad>>, << >>),
      Leaf("W") }

RECURSIVE NodeCount(_)
RECURSIVE SumNodeCount(_, _)
NodeCount(roleJSON) == 1 + SumNodeCount(roleJSON.Subroles, 1)
SumNodeCount(subs, i) ==
    IF i > Len(subs) THEN 0 ELSE NodeCount(subs[i]) + SumNodeCount(subs, i + 1)

RECURSIVE PermCount(_)
RECURSIVE SumPermCount(_, _)
PermCount(roleJSON) == Len(roleJSON.Permissions) + SumPermCount(roleJSON.Subroles, 1)
SumPermCount(subs, i) ==
    IF i > Len(subs) THEN 0 ELSE PermCount(subs[i]) + SumPermCount(subs, i + 1)

(***************************************************************************)
(* Constructors of the types the engine uses.                              *)
(***************************************************************************)
\* NewRole(ID): a Role with empty tags, permissions and subroles and no parent;
\* fails on an empty identifier.
NewRole(st, id) ==
    IF id = ""
    THEN [st |-> st, err |-> InvalidIdentifier, role |-> Nil]
    ELSE [st |-> [st EXCEPT !.mem.Role = Append(@,
                     [ID |-> id, Tags |-> EmptyMap, Parent |-> Nil,
                      Subroles |-> {}, Permissions |-> {}])],
          err |-> NoError,
          role |-> Len(st.mem.Role) + 1]

\* newPermission(ID): a Permission granted by no role yet.
newPermission(st, id) ==
    [st |-> [st EXCEPT !.mem.Permission = Append(@,
                [ID |-> id,
                 Action |-> [Service |-> Nil, Resource |-> Nil, Method |-> ""],
                 Constraints |-> EmptyMap,
                 rolesGranting |-> {}])],
     permission |-> Len(st.mem.Permission) + 1]

NewService(st, id) ==
    [st |-> [st EXCEPT !.mem.Service = Append(@, [ID |-> id, uriToResource |-> EmptyMap])],
     service |-> Len(st.mem.Service) + 1]

NewResource(st, id) ==
    [st |-> [st EXCEPT !.mem.Resource = Append(@, [ID |-> id])],
     resource |-> Len(st.mem.Resource) + 1]

\* ActionJSON.validateFields
validateFields(actionJSON) ==
    IF actionJSON.Service = "" \/ actionJSON.Resource = << >> \/ actionJSON.Method = ""
    THEN InvalidAction
    ELSE NoError

(***************************************************************************)
(* NewAuthEngine: a blank role tree holding just the root role.            *)
(***************************************************************************)
RootObj == 1

NewAuthEngine ==
    [engine |-> [root_role |-> RootObj,
                 roles |-> ("root" :> RootObj),
                 resources |-> EmptyMap,
                 permissions |-> EmptyMap,
                 services |-> EmptyMap],
     mem |-> [Role |-> << [ID |-> "root", Tags |-> EmptyMap, Parent |-> Nil,
                           Subroles |-> {}, Permissions |-> {}] >>,
              Permission |-> << >>,
              Service |-> << >>,
              Resource |-> << >>]]

\* The engine an operation starts from; `registered` collects, in order, the
\* roles the operation stores in the name index.
State == [engine |-> engine, mem |-> mem, registered |-> << >>]

(***************************************************************************)
(* Lookups and find-or-create.                                             *)
(***************************************************************************)
FindRoleNamed(st, id) ==
    IF id \in DOMAIN st.engine.roles THEN st.engine.roles[id] ELSE Nil

findOrCreateService(st, id) ==
    IF id \in DOMAIN st.engine.services
    THEN [st |-> st, service |-> st.engine.services[id]]
    ELSE LET n == NewService(st, id)
         IN  [st |-> [n.st EXCEPT !.engine.services = Put(@, id, n.service)],
              service |-> n.service]

\* The new Resource is returned without being stored in engine.resources.
findOrCreateResource(st, resourceID) ==
    IF resourceID \in DOMAIN st.engine.resources
    THEN [st |-> st, resource |-> st.engine.resources[resourceID]]
    ELSE NewResource(st, resourceID)

\* actionFromJSON with the lookups moved before the validation.
actionFromJSON_LookupFirst(st, actionJSON) ==
    LET s == findOrCreateService(st, actionJSON.Service)
        r == findOrCreateResource(s.st, actionJSON.Resource)
        err == validateFields(actionJSON)
    IN  IF err # NoError
        THEN [st |-> r.st, err |-> err, action |-> Nil]
        ELSE [st |-> r.st, err |-> NoError,
              action |-> [Service |-> s.service, Resource |-> r.resource,
                          Method |-> actionJSON.Method]]

actionFromJSON(st, actionJSON) ==
    LET err == validateFields(actionJSON) IN
    IF err # NoError
    THEN [st |-> st, err |-> err, action |-> Nil]
    ELSE LET s == findOrCreateService(st, actionJSON.Service)
             r == findOrCreateResource(s.st, actionJSON.Resource)
         IN  [st |-> r.st, err |-> NoError,
              action |-> [Service |-> s.service, Resource |-> r.resource,
                          Method |-> actionJSON.Method]]

LoadPermissionFromJSON(st, permissionJSON) ==
    LET p == newPermission(st, permissionJSON.ID)
        a == actionFromJSON(p.st, permissionJSON.Action)
    IN  IF a.err # NoError
        THEN [st |-> a.st, err |-> a.err, permission |-> Nil]
        ELSE [st |-> [a.st EXCEPT
                        !.mem.Permission[p.permission].Action = a.action,
                        !.mem.Permission[p.permission].Constraints =
                            permissionJSON.Constraints],
              err |-> NoError, permission |-> p.permission]

(***************************************************************************)
(* The graph loader.                                                       *)
(***************************************************************************)
RECURSIVE recursivelyLoadRoleFromJSON(_, _)
RECURSIVE LoadPermissions(_, _, _, _)
RECURSIVE LoadSubroles(_, _, _, _)

\* The loop over roleJSON.Permissions, from its i-th element on.
LoadPermissions(st, role, perms, i) ==
    IF i > Len(perms)
    THEN [st |-> st, err |-> NoError]
    ELSE LET p == LoadPermissionFromJSON(st, perms[i]) IN
         IF p.err # NoError
         THEN [st |-> p.st, err |-> p.err]
         ELSE LoadPermissions(
                [p.st EXCEPT !.mem.Role[role].Permissions = @ \cup {p.permission}],
                role, perms, i + 1)

\* The loop over roleJSON.Subroles, from its i-th element on.
LoadSubroles(st, role, subs, i) ==
    IF i > Len(subs)
    THEN [st |-> st, err |-> NoError]
    ELSE LET s == recursivelyLoadRoleFromJSON(st, subs[i]) IN
         IF s.err # NoError
         THEN [st |-> s.st, err |-> s.err]
         ELSE LoadSubroles(
                [s.st EXCEPT !.mem.Role[role].Subroles = @ \cup {s.role}],
                role, subs, i + 1)

\* "Link subroles to parent (this one)."
LinkSubroles(st, role) ==
    [st EXCEPT !.mem.Role =
        [o \in DOMAIN @ |->
            IF o \in st.mem.Role[role].Subroles
            THEN [@[o] EXCEPT !.Parent = role]
            ELSE @[o]]]

\* recursivelyLoadRoleFromJSON, except that the node is stored in the name
\* index as soon as it is constructed, before its permissions and subroles.
recursivelyLoadRoleFromJSON_RegisterFirst(st, roleJSON) ==
    IF roleJSON.ID \in DOMAIN st.engine.roles
    THEN [st |-> st, err |-> RoleAlreadyExists, role |-> Nil]
    ELSE
    LET n == NewRole(st, roleJSON.ID) IN
    IF n.err # NoError
    THEN [st |-> n.st, err |-> n.err, role |-> Nil]
    ELSE
    LET tagged == [n.st EXCEPT !.mem.Role[n.role].Tags = Merge(@, roleJSON.Tags),
                               !.engine.roles = Put(@, roleJSON.ID, n.role),
                               !.registered = Append(@, n.role)]
        p == LoadPermissions(tagged, n.role, roleJSON.Permissions, 1)
    IN
    IF p.err # NoError
    THEN [st |-> p.st, err |-> p.err, role |-> Nil]
    ELSE
    LET s == LoadSubroles(p.st, n.role, roleJSON.Subroles, 1) IN
    IF s.err # NoError
    THEN [st |-> s.st, err |-> s.err, role |-> Nil]
    ELSE [st |-> LinkSubroles(s.st, n.role), err |-> NoError, role |-> n.role]

recursivelyLoadRoleFromJSON(st, roleJSON) ==
    IF roleJSON.ID \in DOMAIN st.engine.roles
    THEN [st |-> st, err |-> RoleAlreadyExists, role |-> Nil]
    ELSE
    LET n == NewRole(st, roleJSON.ID) IN
    IF n.err # NoError
    THEN [st |-> n.st, err |-> n.err, role |-> Nil]
    ELSE
    LET tagged == [n.st EXCEPT !.mem.Role[n.role].Tags = Merge(@, roleJSON.Tags)]
        p == LoadPermissions(tagged, n.role, roleJSON.Permissions, 1)
    IN
    IF p.err # NoError
    THEN [st |-> p.st, err |-> p.err, role |-> Nil]
    ELSE
    LET s == LoadSubroles(p.st, n.role, roleJSON.Subroles, 1) IN
    IF s.err # NoError
    THEN [st |-> s.st, err |-> s.err, role |-> Nil]
    ELSE
    LET linked == LinkSubroles(s.st, n.role)
    IN  [st |-> [linked EXCEPT !.engine.roles = Put(@, roleJSON.ID, n.role),
                               !.registered = Append(@, n.role)],
         err |-> NoError, role |-> n.role]

addNewRootNode(st, role) ==
    [st EXCEPT !.mem.Role[st.engine.root_role].Subroles = @ \cup {role}]

(***************************************************************************)
(* Role methods used by the engine.                                        *)
(***************************************************************************)
RECURSIVE allSubroles(_, _)
\* Role.allSubroles: the full descendant set of a role.
allSubroles(st, role) ==
    LET subs == st.mem.Role[role].Subroles
    IN  subs \cup UNION { allSubroles(st, s) : s \in subs }

\* Role.update: merge the tags, permissions and subroles of `additions` into
\* `role` in place; additive only.
RoleUpdate(st, role, additions) ==
    [st EXCEPT !.mem.Role[role] =
        [@ EXCEPT !.Tags = Merge(@, st.mem.Role[additions].Tags),
                  !.Permissions = @ \cup st.mem.Role[additions].Permissions,
                  !.Subroles = @ \cup st.mem.Role[additions].Subroles]]

(***************************************************************************)
(* Engine operations, as actions.                                          *)
(***************************************************************************)
\* No panic has ended the process.
Running == crashed = NoCrash
\* No CheckAuth call has been started.  No operation of the engine takes a
\* lock (AuthEngine has none), so none waits for this; a specification that
\* keeps the mutations before the call says so in its next-state relation.
Idle == call.pc = "idle"

HasRoom(roleJSON) ==
    /\ Len(mem.Role) + NodeCount(roleJSON) <= MaxRoleObjs
    /\ Len(mem.Permission) + PermCount(roleJSON) <= MaxPermObjs

\* The operation `op`, called with the role description arg, returns err and
\* the object ret, leaving the engine as st.
CommitArg(st, op, id, err, ret, arg) ==
    /\ engine' = st.engine
    /\ mem' = st.mem
    /\ last' = [op |-> op, id |-> id, err |-> err, ret |-> ret, arg |-> arg,
                registered |-> st.registered]
    /\ UNCHANGED <<crashed, authVars, serverVars>>

\* The same for an operation that takes no role description.
CommitRet(st, op, id, err, ret) == CommitArg(st, op, id, err, ret, Leaf(""))

Commit(st, op, id, err) == CommitRet(st, op, id, err, Nil)

LoadRoleFromJSON(roleJSON) ==
    /\ Running
    /\ HasRoom(roleJSON)
    /\ LET r == recursivelyLoadRoleFromJSON(State, roleJSON) IN
       IF r.err # NoError
       THEN CommitArg(r.st, "LoadRoleFromJSON", roleJSON.ID, r.err, Nil, roleJSON)
       ELSE CommitArg(addNewRootNode(r.st, r.role), "LoadRoleFromJSON", roleJSON.ID,
                      NoError, r.role, roleJSON)

updateRoleWithJSON(roleID, additionJSON) ==
    /\ Running
    /\ HasRoom(additionJSON)
    /\ roleID \in DOMAIN engine.roles
    /\ LET role == FindRoleNamed(State, roleID)
           r == recursivelyLoadRoleFromJSON(State, additionJSON)
       IN  IF r.err # NoError
           THEN Commit(r.st, "updateRoleWithJSON", roleID, r.err)
           ELSE Commit(RoleUpdate(r.st, role, r.role), "updateRoleWithJSON", roleID, NoError)

\* detachRole as a function of the state; the caller has checked role.Parent.
detachRoleIn(st, role) ==
    LET parent == st.mem.Role[role].Parent
    IN  [st EXCEPT !.mem.Role[parent].Subroles = @ \ {role},
                   !.engine.roles = Delete(@, st.mem.Role[role].ID)]

RECURSIVE DeleteNames(_, _)
\* The loop of detachRoleRecursively: delete(engine.roles, subrole.ID) for each.
DeleteNames(rolesMap, ids) ==
    IF ids = {} THEN rolesMap
    ELSE LET id == CHOOSE x \in ids : TRUE
         IN  DeleteNames(Delete(rolesMap, id), ids \ {id})

\* The roles a caller can hand to detachRole: those it can look up, except root.
Detachable == { engine.roles[id] : id \in DOMAIN engine.roles } \ {engine.root_role}

Panic(op, id, reason) ==
    /\ crashed' = reason
    /\ last' = [op |-> op, id |-> id, err |-> reason, ret |-> Nil, arg |-> Leaf(""),
                registered |-> << >>]
    /\ UNCHANGED <<engineVars, authVars, serverVars>>

detachRole(role) ==
    /\ Running
    /\ role \in Detachable
    /\ IF mem.Role[role].Parent = Nil
       THEN Panic("detachRole", mem.Role[role].ID, NilDereference)
       ELSE Commit(detachRoleIn(State, role), "detachRole", mem.Role[role].ID, NoError)

detachRoleRecursively(role) ==
    /\ Running
    /\ role \in Detachable
    /\ IF mem.Role[role].Parent = Nil
       THEN Panic("detachRoleRecursively", mem.Role[role].ID, NilDereference)
       ELSE LET d == detachRoleIn(State, role)
                ids == { d.mem.Role[s].ID : s \in allSubroles(d, role) }
            IN  Commit([d EXCEPT !.engine.roles = DeleteNames(@, ids)],
                       "detachRoleRecursively", mem.Role[role].ID, NoError)

\* dropPermissionIfOrphaned(permission), for any Permission object.
dropPermissionIfOrphaned(permission) ==
    /\ Running
    /\ permission \in DOMAIN mem.Permission
    /\ IF mem.Permission[permission].rolesGranting = {}
       THEN Commit([State EXCEPT !.engine.permissions =
                        Delete(@, mem.Permission[permission].ID)],
                   "dropPermissionIfOrphaned", mem.Permission[permission].ID, NoError)
       ELSE Commit(State, "dropPermissionIfOrphaned", mem.Permission[permission].ID, NoError)

(***************************************************************************)
(* The catalog operations (services, resources, actions) and ParseRequest, *)
(* as actions.                                                             *)
(***************************************************************************)
InvalidRequest == "invalid request"
JSONSyntaxError == "invalid character in JSON input"

ServiceIDs == {"data", "audit"}
ResourceIDs == { <<"studies">>, <<"studies", "files">> }

\* The action descriptions the model loads: every field present or missing.
ActionJSONs ==
    { ActionJSON(s, r, m) : s \in ServiceIDs \cup {""},
                            r \in ResourceIDs \cup {<< >>},
                            m \in {"read", ""} }

\* The request bodies the model parses: json is the error json.Unmarshal gives,
\* hasResource tells whether the body carries a resource object for the action,
\* resource is the ID that object carries.
Bodies ==
    { [json |-> e, hasResource |-> TRUE, resource |-> r] :
        e \in {NoError, JSONSyntaxError}, r \in ResourceIDs }
    \cup { [json |-> e, hasResource |-> FALSE, resource |-> << >>] :
        e \in {NoError, JSONSyntaxError} }

ServiceJSON(id, urisToResources) == [ID |-> id, URIsToResources |-> urisToResources]

\* The service descriptions the model loads: without aliases, or with one.
ServiceJSONs ==
    { ServiceJSON(id, m) : id \in ServiceIDs,
                           m \in {EmptyMap, ("/s" :> <<"studies">>)} }

RECURSIVE LoadAliases(_, _, _, _)
\* The loop of LoadServiceFromJSON over the URIs still to load.
LoadAliases(st, service, urisToResources, uris) ==
    IF uris = {} THEN st
    ELSE LET uri == CHOOSE u \in uris : TRUE
             r == findOrCreateResource(st, urisToResources[uri])
         IN  LoadAliases([r.st EXCEPT !.mem.Service[service].uriToResource =
                                         Put(@, uri, r.resource)],
                         service, urisToResources, uris \ {uri})

LoadServiceFromJSON(st, serviceJSON) ==
    LET n == NewService(st, serviceJSON.ID)
        loaded == LoadAliases(n.st, n.service, serviceJSON.URIsToResources,
                              DOMAIN serviceJSON.URIsToResources)
    IN  [st |-> [loaded EXCEPT !.engine.services = Put(@, serviceJSON.ID, n.service)],
         service |-> n.service]

CatalogHasRoom ==
    /\ Len(mem.Service) < MaxServiceObjs
    /\ Len(mem.Resource) < MaxResourceObjs

findResource(st, resourceID) ==
    IF resourceID \in DOMAIN st.engine.resources
    THEN st.engine.resources[resourceID]
    ELSE Nil

CallFindOrCreateService(id) ==
    /\ Running
    /\ CatalogHasRoom
    /\ LET r == findOrCreateService(State, id)
       IN  CommitRet(r.st, "findOrCreateService", id, NoError, r.service)

CallFindOrCreateResource(resourceID) ==
    /\ Running
    /\ CatalogHasRoom
    /\ LET r == findOrCreateResource(State, resourceID)
       IN  CommitRet(r.st, "findOrCreateResource", resourceID, NoError, r.resource)

CallLoadServiceFromJSON(serviceJSON) ==
    /\ Running
    /\ CatalogHasRoom
    /\ LET r == LoadServiceFromJSON(State, serviceJSON)
       IN  CommitRet(r.st, "LoadServiceFromJSON", serviceJSON.ID, NoError, r.service)

\* A call of actionFromJSON; last.id is the description, last.ret the Action.
CallActionFromJSON(actionJSON) ==
    /\ Running
    /\ CatalogHasRoom
    /\ LET r == actionFromJSON(State, actionJSON)
       IN  CommitRet(r.st, "actionFromJSON", actionJSON, r.err, r.action)

\* ParseRequest(body): last.err is the error it returns, last.ret the
\* Action.Resource of the request it returns.
ParseRequest(body) ==
    /\ Running
    /\ IF ~body.hasResource
       THEN Panic("ParseRequest", body.resource, NilDereference)
       ELSE CommitRet(State, "ParseRequest", body.resource, body.json,
                      findResource(State, body.resource))

(***************************************************************************)
(* Authorization requests and the evaluation of one role.                  *)
(***************************************************************************)
NilString == "<nil>"      \* a nil *string
NoRequest == [Roles |-> {}, Action |-> ActionJSON("", << >>, ""), Constraints |-> EmptyMap]

\* The zero authResponse, which is also CheckAuth's initial default_response.
NoResponse ==
    [Auth |-> FALSE, Role_ID |-> NilString, PermissionGranting |-> Nil,
     PermissionsMismatching |-> << >>]

IsPrefix(p, q) == Len(p) <= Len(q) /\ SubSeq(q, 1, Len(p)) = p

\* All the orders in which a finite set can be enumerated.
Orderings(S) ==
    { s \in [1..Cardinality(S) -> S] : \A x \in S : \E i \in DOMAIN s : s[i] = x }

\* The match rule of a Permission's Action against a requested action: equal
\* service and method, and the requested resource at or under the permission's.
ActionMatches(st, permission, action) ==
    LET a == st.mem.Permission[permission].Action IN
    /\ a.Service # Nil /\ st.mem.Service[a.Service].ID = action.Service
    /\ a.Method = action.Method
    /\ a.Resource # Nil /\ IsPrefix(st.mem.Resource[a.Resource].ID, action.Resource)

\* Every key the permission requires is offered with an equal value.
ConstraintsSatisfied(required, offered) ==
    \A k \in DOMAIN required : k \in DOMAIN offered /\ offered[k] = required[k]

\* Role.validate: the responses the evaluation of `role` (its own permissions
\* and those of its whole subtree) can give; the traversal order is unspecified.
RoleValidate(st, role, action, constraints) ==
    LET subtree == {role} \cup allSubroles(st, role)
        perms == UNION { st.mem.Role[r].Permissions : r \in subtree }
        matching == { p \in perms : ActionMatches(st, p, action) }
        satisfying == { p \in matching :
                          ConstraintsSatisfied(st.mem.Permission[p].Constraints, constraints) }
    IN  IF satisfying # {}
        THEN { [Auth |-> TRUE, Role_ID |-> NilString, PermissionGranting |-> p,
                PermissionsMismatching |-> << >>] : p \in satisfying }
        ELSE { [Auth |-> FALSE, Role_ID |-> NilString, PermissionGranting |-> Nil,
                PermissionsMismatching |-> s] : s \in Orderings(matching) }

\* The requests the model makes: any set of registered roles, asking to read
\* /studies/files without constraints, with env=prod, or with env=prod and
\* team=a, or to write /studies.
RequestShapes ==
    { <<ActionJSON("data", <<"studies", "files">>, "read"), EmptyMap>>,
      <<ActionJSON("data", <<"studies", "files">>, "read"), Prod>>,
      <<ActionJSON("data", <<"studies", "files">>, "read"), Prod @@ ("team" :> "a")>>,
      <<ActionJSON("data", <<"studies">>, "write"), EmptyMap>> }

Requests ==
    { [Roles |-> rs, Action |-> shape[1], Constraints |-> shape[2]] :
        rs \in SUBSET Detachable, shape \in RequestShapes }

(***************************************************************************)
(* CheckAuth.  CheckAuthStart is the function up to its select statement:  *)
(* nothing it does there is visible to another goroutine before the tasks  *)
(* it starts take their first step.                                        *)
(***************************************************************************)
ResponseChannelCap == 1
SendOnClosed == "send on closed channel"
CloseOfClosed == "close of closed channel"

Crash(reason) ==
    /\ crashed' = reason
    /\ UNCHANGED <<engineVars, last, serverVars>>

KeepRunning == UNCHANGED <<engineVars, last, crashed, serverVars>>

\* make([]*Role, len(Subroles)) followed by one append per subrole: as many
\* nil elements as there are subroles, then the subroles in map order.
RolesSlices ==
    LET subroles == mem.Role[engine.root_role].Subroles
    IN  { [i \in 1..Cardinality(subroles) |-> Nil] \o order : order \in Orderings(subroles) }

CheckAuthStart(request) ==
    /\ Running /\ Idle
    /\ \E roles \in RolesSlices :
         /\ wg' = Len(roles)
         /\ tasks' = [i \in 1..Len(roles) |->
                        [role |-> roles[i], pc |-> "validate",
                         role_response |-> NoResponse, ps |-> << >>]]
    /\ default_response' = NoResponse
    /\ response_channel' = [buf |-> << >>, closed |-> FALSE]
    /\ done_channel' = [closed |-> FALSE]
    /\ waiter' = "wait"
    /\ call' = [pc |-> "select", request |-> request, response |-> NoResponse]
    /\ KeepRunning

\* go func() { wg.Wait(); close(done_channel) }()
WaiterClose ==
    /\ Running
    /\ waiter = "wait"
    /\ wg = 0
    /\ waiter' = "done"
    /\ IF done_channel.closed
       THEN Crash(CloseOfClosed) /\ UNCHANGED done_channel
       ELSE done_channel' = [closed |-> TRUE] /\ KeepRunning
    /\ UNCHANGED <<call, tasks, wg, response_channel, default_response>>

\* TaskValidate, except that a task that finds a satisfying permission stores
\* it in the engine's permission registry.
TaskValidate_Registering(i) ==
    /\ Running
    /\ tasks[i].pc = "validate"
    /\ IF tasks[i].role = Nil
       THEN /\ tasks' = [tasks EXCEPT ![i].pc = "panicked"]
            /\ Crash(NilDereference)
       ELSE /\ \E r \in RoleValidate(State, tasks[i].role,
                                     call.request.Action, call.request.Constraints) :
                 /\ tasks' = [tasks EXCEPT ![i].role_response = r,
                                           ![i].pc = IF r.Auth THEN "send" ELSE "read"]
                 /\ engine' = IF r.Auth
                               THEN [engine EXCEPT !.permissions =
                                        Put(@, mem.Permission[r.PermissionGranting].ID,
                                            r.PermissionGranting)]
                               ELSE engine
            /\ UNCHANGED <<mem, last, crashed, serverVars>>
    /\ UNCHANGED <<call, waiter, wg, response_channel, done_channel, default_response>>

\* role_response := role.validate(request.Action, request.Constraints)
TaskValidate(i) ==
    /\ Running
    /\ tasks[i].pc = "validate"
    /\ IF tasks[i].role = Nil
       THEN /\ tasks' = [tasks EXCEPT ![i].pc = "panicked"]
            /\ Crash(NilDereference)
       ELSE /\ \E r \in RoleValidate(State, tasks[i].role,
                                     call.request.Action, call.request.Constraints) :
                 tasks' = [tasks EXCEPT ![i].role_response = r,
                                        ![i].pc = IF r.Auth THEN "send" ELSE "read"]
            /\ KeepRunning
    /\ UNCHANGED <<call, waiter, wg, response_channel, done_channel, default_response>>

\* TaskSend, except that the goroutine reads a `role` variable shared with the
\* loop that started it: the last role of the slice.
TaskSend_SharedRole(i) ==
    /\ Running
    /\ tasks[i].pc = "send"
    /\ IF response_channel.closed
       THEN /\ tasks' = [tasks EXCEPT ![i].pc = "panicked"]
            /\ Crash(SendOnClosed)
            /\ UNCHANGED response_channel
       ELSE /\ Len(response_channel.buf) < ResponseChannelCap
            /\ response_channel' =
                 [response_channel EXCEPT !.buf = Append(@,
                    [Auth |-> TRUE,
                     Role_ID |-> mem.Role[tasks[Len(tasks)].role].ID,
                     PermissionGranting |-> tasks[i].role_response.PermissionGranting,
                     PermissionsMismatching |-> << >>])]
            /\ tasks' = [tasks EXCEPT ![i].pc = "wg_done"]
            /\ KeepRunning
    /\ UNCHANGED <<call, waiter, wg, done_channel, default_response>>

\* response_channel <- authResponse{Auth: true, Role_ID: &role.ID, ...}
TaskSend(i) ==
    /\ Running
    /\ tasks[i].pc = "send"
    /\ IF response_channel.closed
       THEN /\ tasks' = [tasks EXCEPT ![i].pc = "panicked"]
            /\ Crash(SendOnClosed)
            /\ UNCHANGED response_channel
       ELSE /\ Len(response_channel.buf) < ResponseChannelCap
            /\ response_channel' =
                 [response_channel EXCEPT !.buf = Append(@,
                    [Auth |-> TRUE,
                     Role_ID |-> mem.Role[tasks[i].role].ID,
                     PermissionGranting |-> tasks[i].role_response.PermissionGranting,
                     PermissionsMismatching |-> << >>])]
            /\ tasks' = [tasks EXCEPT ![i].pc = "wg_done"]
            /\ KeepRunning
    /\ UNCHANGED <<call, waiter, wg, done_channel, default_response>>

\* The read half of *ps = append(*ps, ...): no lock orders it against another
\* task's append.
TaskReadMismatching(i) ==
    /\ Running
    /\ tasks[i].pc = "read"
    /\ tasks' = [tasks EXCEPT ![i].ps = default_response.PermissionsMismatching,
                              ![i].pc = "write"]
    /\ KeepRunning
    /\ UNCHANGED <<call, waiter, wg, response_channel, done_channel, default_response>>

\* The write half of *ps = append(*ps, role_response.PermissionsMismatching...)
TaskWriteMismatching(i) ==
    /\ Running
    /\ tasks[i].pc = "write"
    /\ default_response' =
         [default_response EXCEPT !.PermissionsMismatching =
            tasks[i].ps \o tasks[i].role_response.PermissionsMismatching]
    /\ tasks' = [tasks EXCEPT ![i].pc = "wg_done"]
    /\ KeepRunning
    /\ UNCHANGED <<call, waiter, wg, response_channel, done_channel>>

\* wg.Done()
TaskDone(i) ==
    /\ Running
    /\ tasks[i].pc = "wg_done"
    /\ wg' = wg - 1
    /\ tasks' = [tasks EXCEPT ![i].pc = "done"]
    /\ KeepRunning
    /\ UNCHANGED <<call, waiter, response_channel, done_channel, default_response>>

\* select { case response := <-response_channel: ... }
SelectResponse ==
    /\ Running
    /\ call.pc = "select"
    /\ response_channel.buf # << >>
    /\ call' = [call EXCEPT !.pc = "defer_done", !.response = Head(response_channel.buf)]
    /\ response_channel' = [response_channel EXCEPT !.buf = Tail(@)]
    /\ KeepRunning
    /\ UNCHANGED <<tasks, waiter, wg, done_channel, default_response>>

\* select { ... case <-done_channel: return default_response }
SelectDone ==
    /\ Running
    /\ call.pc = "select"
    /\ done_channel.closed
    /\ call' = [call EXCEPT !.pc = "defer_done", !.response = default_response]
    /\ KeepRunning
    /\ UNCHANGED <<tasks, waiter, wg, response_channel, done_channel, default_response>>

\* defer close(done_channel): deferred last, so run first.
DeferCloseDone ==
    /\ Running
    /\ call.pc = "defer_done"
    /\ IF done_channel.closed
       THEN /\ call' = [call EXCEPT !.pc = "panicked"]
            /\ Crash(CloseOfClosed)
            /\ UNCHANGED done_channel
       ELSE /\ call' = [call EXCEPT !.pc = "defer_response"]
            /\ done_channel' = [closed |-> TRUE]
            /\ KeepRunning
    /\ UNCHANGED <<tasks, waiter, wg, response_channel, default_response>>

\* defer close(response_channel), after which CheckAuth has returned.
DeferCloseResponse ==
    /\ Running
    /\ call.pc = "defer_response"
    /\ IF response_channel.closed
       THEN /\ call' = [call EXCEPT !.pc = "panicked"]
            /\ Crash(CloseOfClosed)
            /\ UNCHANGED response_channel
       ELSE /\ call' = [call EXCEPT !.pc = "returned"]
            /\ response_channel' = [response_channel EXCEPT !.closed = TRUE]
            /\ KeepRunning
    /\ UNCHANGED <<tasks, waiter, wg, done_channel, default_response>>

(***************************************************************************)
(* JSONResponse and its error envelope.                                    *)
(***************************************************************************)
\* A JSONResponse: the error it carries (internal or external), its status
\* code and its serialized body.
JSONResponse(internal, external, code) ==
    [InternalError |-> internal, ExternalError |-> external, Code |-> code, Bytes |-> ""]

NoJSONResponse == JSONResponse(NoError, NoError, 0)

RECURSIVE MarshalFields(_, _)
\* The members of a JSON object, in the order of the fields: "key":value, ...
MarshalFields(fields, i) ==
    IF i > Len(fields) THEN ""
    ELSE ToString(fields[i][1]) \o ":" \o ToString(fields[i][2])
         \o (IF i < Len(fields) THEN "," ELSE "")
         \o MarshalFields(fields, i + 1)

\* json.Marshal of a struct whose fields are the <<key, value>> pairs given.
Marshal(fields) == "{" \o MarshalFields(fields, 1) \o "}"

ErrorMessage(r) ==
    IF r.InternalError # NoError THEN r.InternalError ELSE r.ExternalError

\* addErrorJSON with the two fields of the envelope in the other order.
addErrorJSON_CodeFirst(r) ==
    [r EXCEPT !.Bytes = Marshal(<< <<"code", r.Code>>, <<"error", ErrorMessage(r)>> >>)]

\* JSONResponse.addErrorJSON: the body becomes the error envelope.
addErrorJSON(r) ==
    [r EXCEPT !.Bytes = Marshal(<< <<"error", ErrorMessage(r)>>, <<"code", r.Code>> >>)]

\* The responses addErrorJSON is applied to: one error, internal or external,
\* and a status code.
ErrorTexts == {"example", "user error", "database unavailable", "no policy found", ""}
ErrorCodes == {400, 401, 403, 404, 409, 500, 503}

Responses ==
    { JSONResponse(m, NoError, c) : m \in ErrorTexts, c \in ErrorCodes }
    \cup { JSONResponse(NoError, m, c) : m \in ErrorTexts, c \in ErrorCodes }

AddErrorJSON ==
    /\ response.Bytes = ""
    /\ response' = addErrorJSON(response)
    /\ UNCHANGED <<engineVars, last, crashed, authVars, db, http>>

(***************************************************************************)
(* The HTTP handlers of Server.  A handler is one action: it queries or    *)
(* changes the store, logs, and writes to the ResponseWriter.  http holds  *)
(* what the handler did: its writes in order, its log lines in order, and  *)
(* the store operations it called.                                         *)
(***************************************************************************)
LevelError == "error"     \* server.logger.Error
LevelInfo == "info"       \* server.logger.Info

LogLine(level, message) == [level |-> level, message |-> message]

\* A nil *ErrorResponse.
NoErrResponse == [Code |-> 0, Message |-> NoError]
\* newErrorResponse(msg, code, err), reduced to its Error.Code and Error.Message.
newErrorResponse(msg, code) == [Code |-> code, Message |-> msg]
\* jsonResponseFrom(x, code): a response that carries no error.
jsonResponseFrom(code) == [Code |-> code, Message |-> NoError]

missingRequiredField(typ, field) == typ \o " missing required field: " \o field

AlreadyExists == "already exists"
DatabaseFailure == "database failure"

\* x.createInDb(db): the key is stored, or it is there already, or the store fails.
createInDb(store, key) ==
    (IF key \in store
     THEN { [store |-> store, errResponse |-> newErrorResponse(AlreadyExists, 409)] }
     ELSE { [store |-> store \cup {key}, errResponse |-> NoErrResponse] })
    \cup { [store |-> store, errResponse |-> newErrorResponse(DatabaseFailure, 500)] }

\* x.deleteInDb(db): the key is gone afterwards, or the store fails.
deleteInDb(store, key) ==
    { [store |-> store \ {key}, errResponse |-> NoErrResponse],
      [store |-> store, errResponse |-> newErrorResponse(DatabaseFailure, 500)] }

\* policyWithName, resourceWithPath, roleWithName: the (object, err) pairs the
\* query can return; found says that the object returned is not nil.
withName(store, key) ==
    { [found |-> key \in store, err |-> NoError],
      [found |-> FALSE, err |-> DatabaseFailure] }
    \cup (IF key \in store THEN { [found |-> TRUE, err |-> DatabaseFailure] } ELSE {})

\* A store operation the handler called, and the error it came back with.
DbCall(op, err) == [op |-> op, err |-> err]

\* w.WriteHeader(code), without a body.
WriteHeader(code) == [Code |-> code, Message |-> NoError]

\* The handler has served `request`.
Served(handler, request, writes, logs, dbCalls, store) ==
    /\ http' = [handler |-> handler, request |-> request, writes |-> writes,
                logs |-> logs, dbCalls |-> dbCalls]
    /\ db' = store
    /\ UNCHANGED <<engineVars, last, crashed, authVars, response>>

\* if errResponse.Error.Code >= 500 { logger.Error(...) } else { logger.Info(...) }
LogByCode(errResponse) ==
    IF errResponse.Code >= 500
    THEN << LogLine(LevelError, errResponse.Message) >>
    ELSE << LogLine(LevelInfo, errResponse.Message) >>

\* A request: the name or the resource path in its URL, and its body: the
\* error json.Unmarshal gives on it and the Name and Path it carries.
Request(urlName, urlPath, json, name, path) ==
    [urlName |-> urlName, urlPath |-> urlPath, json |-> json, Name |-> name, Path |-> path]

NoHTTPRequest == Request("", << >>, NoError, "", << >>)
ByName(name) == Request(name, << >>, NoError, "", << >>)
ByPath(path) == Request("", path, NoError, "", << >>)

\* The inputs of the handlers.
PolicyNames == {"p1"}
RoleNames == {"r1"}
ParentPaths == { <<"a">> }
NameBodies(names) ==
    { Request("", << >>, e, n, << >>) : e \in {NoError, JSONSyntaxError}, n \in names }
ResourceBodies ==
    { Request("", << >>, e, n, path) :
        e \in {NoError, JSONSyntaxError}, path \in ParentPaths \cup {<< >>}, n \in {"b", ""} }

handleHealth ==
    \E ping \in {NoError, DatabaseFailure} :
        IF ping # NoError
        THEN Served("handleHealth", NoHTTPRequest,
                    << newErrorResponse("database unavailable", 500), WriteHeader(200) >>,
                    << LogLine(LevelError, "database ping failed; returning unhealthy") >>,
                    << >>, db)
        ELSE Served("handleHealth", NoHTTPRequest, << WriteHeader(200) >>, << >>, << >>, db)

\* The requests of handleAuthProxy: which query arguments and header it
\* carries, what decodeToken and authorize return for it.
ProxyRequests ==
    [resource : BOOLEAN, service : BOOLEAN, method : BOOLEAN, authHeader : BOOLEAN,
     decodeToken : {NoError, "invalid token"},
     authorize : {NoError, "could not authorize"}, rv : BOOLEAN]

\* An error answer of handleAuthProxy that is logged with logger.Info.
Refused(msg, code) ==
    Served("handleAuthProxy", NoHTTPRequest, << newErrorResponse(msg, code) >>,
           << LogLine(LevelInfo, msg) >>, << >>, db)

handleAuthProxy(q) ==
    IF ~q.resource THEN Refused("auth proxy request missing resource argument", 400)
    ELSE IF ~q.service THEN Refused("auth proxy request missing service argument", 400)
    ELSE IF ~q.method THEN Refused("auth proxy request missing method argument", 400)
    ELSE IF ~q.authHeader THEN Refused("auth proxy request missing auth header", 400)
    ELSE IF q.decodeToken # NoError THEN Refused(q.decodeToken, 401)
    ELSE IF q.authorize # NoError THEN Refused(q.authorize, 400)
    ELSE IF ~q.rv
    THEN Served("handleAuthProxy", NoHTTPRequest,
                << newErrorResponse("Unauthorized: user does not have access to this resource",
                                    403) >>,
                << >>, << DbCall("authorize", NoError) >>, db)
    ELSE Served("handleAuthProxy", NoHTTPRequest, << >>, << >>,
                << DbCall("authorize", NoError) >>, db)

\* The end of the three create handlers: createInDb, then the error response
\* it gave, logged by its code, or 201.
Create(handler, body, field, key) ==
    \E c \in createInDb(db[field], key) :
        IF c.errResponse # NoErrResponse
        THEN Served(handler, body, << c.errResponse >>, LogByCode(c.errResponse),
                    << DbCall("createInDb", c.errResponse.Message) >>, [db EXCEPT ![field] = c.store])
        ELSE Served(handler, body, << jsonResponseFrom(201) >>, << >>,
                    << DbCall("createInDb", c.errResponse.Message) >>, [db EXCEPT ![field] = c.store])

\* The start of the three create handlers: json.Unmarshal failed.
ParseFailed(handler, body, msg) ==
    Served(handler, body, << newErrorResponse(msg, 400) >>, << LogLine(LevelInfo, msg) >>,
           << >>, db)

handlePolicyCreate(body) ==
    IF body.json # NoError
    THEN ParseFailed("handlePolicyCreate", body, "could not parse policy from JSON")
    ELSE Create("handlePolicyCreate", body, "policies", body.Name)

\* The three read handlers but for what they log when nothing is found.
Read(handler, request, name, field, notFound, notFoundLog, failed) ==
    \E q \in withName(db[field], name) :
        IF ~q.found
        THEN Served(handler, request, << newErrorResponse(notFound, 404) >>, notFoundLog,
                    << DbCall("withName", q.err) >>, db)
        ELSE IF q.err # NoError
        THEN Served(handler, request, << newErrorResponse(failed, 500) >>,
                    << LogLine(LevelError, failed) >>, << DbCall("withName", q.err) >>, db)
        ELSE Served(handler, request, << jsonResponseFrom(200) >>, << >>,
                    << DbCall("withName", q.err) >>, db)

handlePolicyRead(name) ==
    Read("handlePolicyRead", ByName(name), name, "policies", "no policy found with id",
         << LogLine(LevelError, "no policy found with id") >>, "policy query failed")

\* The three delete handlers: deleteInDb, its error logged with logger.Info.
DeleteIn(handler, request, name, field, okCode) ==
    \E d \in deleteInDb(db[field], name) :
        IF d.errResponse # NoErrResponse
        THEN Served(handler, request, << d.errResponse >>,
                    << LogLine(LevelInfo, d.errResponse.Message) >>,
                    << DbCall("deleteInDb", d.errResponse.Message) >>, [db EXCEPT ![field] = d.store])
        ELSE Served(handler, request, << jsonResponseFrom(okCode) >>, << >>,
                    << DbCall("deleteInDb", d.errResponse.Message) >>, [db EXCEPT ![field] = d.store])

handlePolicyDelete(name) == DeleteIn("handlePolicyDelete", ByName(name), name, "policies", 201)

\* handleResourceCreate without its check of resource.Path.
handleResourceCreate_Unchecked(body) ==
    IF body.json # NoError
    THEN ParseFailed("handleResourceCreate", body, "could not parse resource from JSON")
    ELSE Create("handleResourceCreate", body, "resources", body.Path)

handleResourceCreate(body) ==
    IF body.json # NoError
    THEN ParseFailed("handleResourceCreate", body, "could not parse resource from JSON")
    ELSE IF body.Path = << >>
    THEN Served("handleResourceCreate", body,
                << newErrorResponse(missingRequiredField("resource", "path"), 400) >>,
                << LogLine(LevelInfo, missingRequiredField("resource", "path")) >>,
                << >>, db)
    ELSE Create("handleResourceCreate", body, "resources", body.Path)

\* The request of handleSubresourceCreate: the path in the URL and the body.
SubresourceRequest(parentPath, body) == [body EXCEPT !.urlPath = parentPath]

handleSubresourceCreate(parentPath, body) ==
    IF body.json # NoError
    THEN ParseFailed("handleSubresourceCreate", SubresourceRequest(parentPath, body),
                     "could not parse resource from JSON")
    ELSE IF body.Name = ""
    THEN Served("handleSubresourceCreate", SubresourceRequest(parentPath, body),
                << newErrorResponse(missingRequiredField("resource", "name"), 400) >>,
                << LogLine(LevelInfo, missingRequiredField("resource", "name")) >>,
                << >>, db)
    ELSE Create("handleSubresourceCreate", SubresourceRequest(parentPath, body),
                "resources", parentPath \o << body.Name >>)

handleResourceRead(path) ==
    Read("handleResourceRead", ByPath(path), path, "resources", "no resource found with path",
         << >>, "resource query failed")

handleResourceDelete(path) == DeleteIn("handleResourceDelete", ByPath(path), path, "resources", 204)

handleRoleCreate(body) ==
    IF body.json # NoError
    THEN ParseFailed("handleRoleCreate", body, "could not parse role from JSON")
    ELSE Create("handleRoleCreate", body, "roles", body.Name)

handleRoleRead(name) ==
    Read("handleRoleRead", ByName(name), name, "roles", "no role found with id",
         << LogLine(LevelError, "no role found with id") >>, "role query failed")

handleRoleDelete(name) == DeleteIn("handleRoleDelete", ByName(name), name, "roles", 204)

(***************************************************************************)
(* The engine's specification: any sequence of its operations.             *)
(***************************************************************************)
EngineInit ==
    /\ engine = NewAuthEngine.engine
    /\ mem = NewAuthEngine.mem
    /\ last = [op |-> "NewAuthEngine", id |-> "root", err |-> NoError, ret |-> Nil,
               arg |-> Leaf(""), registered |-> << >>]
    /\ crashed = NoCrash
    /\ call = [pc |-> "idle", request |-> NoRequest, response |-> NoResponse]
    /\ tasks = << >>
    /\ waiter = "idle"
    /\ wg = 0
    /\ response_channel = [buf |-> << >>, closed |-> FALSE]
    /\ done_channel = [closed |-> FALSE]
    /\ default_response = NoResponse

ServerInit ==
    /\ db = [policies |-> {}, resources |-> {}, roles |-> {}]
    /\ http = [handler |-> "none", request |-> NoHTTPRequest, writes |-> << >>,
               logs |-> << >>, dbCalls |-> << >>]

Init ==
    /\ EngineInit
    /\ ServerInit
    /\ response = NoJSONResponse

Next ==
    \/ \E d \in Descriptions : LoadRoleFromJSON(d)
    \/ \E id \in DOMAIN engine.roles, d \in Descriptions : updateRoleWithJSON(id, d)
    \/ \E r \in DOMAIN mem.Role : detachRole(r)
    \/ \E r \in DOMAIN mem.Role : detachRoleRecursively(r)
    \/ \E p \in DOMAIN mem.Permission : dropPermissionIfOrphaned(p)

Spec == Init /\ [][Next]_vars

(***************************************************************************)
(* The specification of addErrorJSON: any response of Responses, to which  *)
(* addErrorJSON is applied once.                                           *)
(***************************************************************************)
ResponseInit ==
    /\ EngineInit
    /\ ServerInit
    /\ response \in Responses

ResponseNext == AddErrorJSON

ResponseSpec == ResponseInit /\ [][ResponseNext]_vars

(***************************************************************************)
(* The specification of the server: any sequence of requests, each served  *)
(* by its handler.                                                         *)
(***************************************************************************)
ResourcePaths == ParentPaths \cup { parent \o <<"b">> : parent \in ParentPaths }

ServerNext ==
    \/ handleHealth
    \/ \E q \in ProxyRequests : handleAuthProxy(q)
    \/ \E body \in NameBodies(PolicyNames) : handlePolicyCreate(body)
    \/ \E name \in PolicyNames : handlePolicyRead(name)
    \/ \E name \in PolicyNames : handlePolicyDelete(name)
    \/ \E body \in ResourceBodies : handleResourceCreate(body)
    \/ \E parent \in ParentPaths, body \in ResourceBodies : handleSubresourceCreate(parent, body)
    \/ \E path \in ResourcePaths : handleResourceRead(path)
    \/ \E path \in ResourcePaths : handleResourceDelete(path)
    \/ \E body \in NameBodies(RoleNames) : handleRoleCreate(body)
    \/ \E name \in RoleNames : handleRoleRead(name)
    \/ \E name \in RoleNames : handleRoleDelete(name)

ServerSpec == Init /\ [][ServerNext]_vars

(***************************************************************************)
(* The specification of the catalog: lookups, action loading and request   *)
(* parsing on an engine that also loads roles.                             *)
(***************************************************************************)
CatalogDescriptions == { RoleJSON("Y", EmptyMap, <<P2>>, << >>) }

CatalogNext ==
    \/ \E d \in CatalogDescriptions : CatalogHasRoom /\ LoadRoleFromJSON(d)
    \/ \E id \in ServiceIDs : CallFindOrCreateService(id)
    \/ \E id \in ResourceIDs : CallFindOrCreateResource(id)
    \/ \E a \in ActionJSONs : CallActionFromJSON(a)
    \/ \E body \in Bodies : ParseRequest(body)
    \/ \E serviceJSON \in ServiceJSONs : CallLoadServiceFromJSON(serviceJSON)

CatalogSpec == Init /\ [][CatalogNext]_vars

(***************************************************************************)
(* The specification of CheckAuth: the engine is loaded, then one call of  *)
(* CheckAuth runs with the goroutines it starts, in any interleaving, and  *)
(* no other caller of the engine runs meanwhile.                           *)
(***************************************************************************)
AuthDescriptions ==
    { RoleJSON("Y", EmptyMap, <<P2>>, << >>),
      RoleJSON("W", EmptyMap, << >>, <<RoleJSON("Z", EmptyMap, <<P3>>, << >>)>>) }

AuthNext ==
    \/ \E d \in AuthDescriptions : Idle /\ LoadRoleFromJSON(d)
    \/ \E request \in Requests : CheckAuthStart(request)
    \/ \E i \in DOMAIN tasks : TaskValidate(i)
    \/ \E i \in DOMAIN tasks : TaskSend(i)
    \/ \E i \in DOMAIN tasks : TaskReadMismatching(i)
    \/ \E i \in DOMAIN tasks : TaskWriteMismatching(i)
    \/ \E i \in DOMAIN tasks : TaskDone(i)
    \/ WaiterClose
    \/ SelectResponse
    \/ SelectDone
    \/ DeferCloseDone
    \/ DeferCloseResponse

AuthSpec == Init /\ [][AuthNext]_vars

(***************************************************************************)
(* The specification of the engine under concurrent callers: CheckAuth and *)
(* its goroutines as in AuthSpec, and role loads issued by other callers   *)
(* at any time, before, during and after the call.                         *)
(***************************************************************************)
ConcurrentDescriptions ==
    { RoleJSON("Y", EmptyMap, <<P2>>, << >>), Leaf("V") }

ConcurrentNext ==
    \/ \E d \in ConcurrentDescriptions : LoadRoleFromJSON(d)
    \/ \E request \in Requests : CheckAuthStart(request)
    \/ \E i \in DOMAIN tasks : TaskValidate(i)
    \/ \E i \in DOMAIN tasks : TaskSend(i)
    \/ \E i \in DOMAIN tasks : TaskReadMismatching(i)
    \/ \E i \in DOMAIN tasks : TaskWriteMismatching(i)
    \/ \E i \in DOMAIN tasks : TaskDone(i)
    \/ WaiterClose
    \/ SelectResponse
    \/ SelectDone
    \/ DeferCloseDone
    \/ DeferCloseResponse

ConcurrentSpec == Init /\ [][ConcurrentNext]_vars

(***************************************************************************)
(* Properties of CheckAuth, checked under AuthSpec.                        *)
(***************************************************************************)
Range(seq) == { seq[i] : i \in DOMAIN seq }

\* Some role the request names, or one of its descendants, holds a permission
\* that matches the requested action and whose constraints the request satisfies.
NamedRoleGrants(request) ==
    \E role \in request.Roles :
        \E r \in RoleValidate(State, role, request.Action, request.Constraints) : r.Auth

\* C1: the response CheckAuth returns has Auth=true if and only if a role named
\* in the request, or one of its descendants, holds a satisfying permission.
C1_VerdictIffNamedRoleGrants ==
    call.pc = "returned" => (call.response.Auth <=> NamedRoleGrants(call.request))

\* C2: no mismatching permission a task has reported is lost: once a
\* non-granting task has appended, its mismatching permissions stay in the
\* shared default response, and a deny response carries those of every task.
C2_NoMismatchingLost ==
    /\ \A i \in DOMAIN tasks :
         (tasks[i].pc \in {"wg_done", "done"} /\ ~tasks[i].role_response.Auth)
            => Range(tasks[i].role_response.PermissionsMismatching)
                 \subseteq Range(default_response.PermissionsMismatching)
    /\ (call.pc \in {"defer_done", "defer_response", "returned"} /\ ~call.response.Auth)
            => \A i \in DOMAIN tasks :
                 Range(tasks[i].role_response.PermissionsMismatching)
                    \subseteq Range(call.response.PermissionsMismatching)

\* C3: CheckAuth's deferred cleanup never fails: the completion channel is
\* never closed a second time and the call never ends in a panic.
C3_CleanupNeverFails ==
    call.pc # "panicked" /\ crashed # CloseOfClosed

\* C4: once CheckAuth has returned a permit, no task that also found a
\* satisfying permission fails when it publishes its result.
C4_LateTaskPublishes ==
    call.pc = "returned" =>
        \A i \in DOMAIN tasks : ~(tasks[i].role # Nil /\ tasks[i].pc = "panicked")

\* C5: the tasks CheckAuth starts are exactly one per role the request names,
\* each on a live Role, and the barrier counts the tasks not yet finished.
C5_OneTaskPerNamedRole ==
    call.pc # "idle" =>
        /\ \A i \in DOMAIN tasks : tasks[i].role # Nil
        /\ { tasks[i].role : i \in DOMAIN tasks } = call.request.Roles
        /\ Len(tasks) = Cardinality(call.request.Roles)
        /\ wg = Cardinality({ i \in DOMAIN tasks : tasks[i].pc # "done" })

\* C16: no step of CheckAuth or of a goroutine it started changes the
\* engine: from the start of the call on, the forest, the registries and the
\* objects they point to stay as they were.
C16_CheckAuthOnlyReads ==
    [][(call.pc # "idle" \/ call'.pc # "idle") => UNCHANGED engineVars]_vars

\* CheckAuth has returned and one of its tasks has run to its end.
C16_Witness ==
    /\ call.pc = "returned"
    /\ \E i \in DOMAIN tasks : tasks[i].pc = "done"

\* CheckAuth has taken a response and is returning it, or has returned it.
Returning == call.pc \in {"defer_done", "defer_response", "returned"}

\* C17: a permit response that CheckAuth returns is what one of its tasks
\* published: Auth is true, Role_ID is the ID of that task's role,
\* PermissionGranting is the permission that task found, and
\* PermissionsMismatching is empty.
C17_PermitIsOneTasksResult ==
    (Returning /\ call.response.Auth) =>
        \E i \in DOMAIN tasks :
            /\ tasks[i].role # Nil
            /\ tasks[i].role_response.Auth
            /\ call.response =
                 [Auth |-> TRUE,
                  Role_ID |-> mem.Role[tasks[i].role].ID,
                  PermissionGranting |-> tasks[i].role_response.PermissionGranting,
                  PermissionsMismatching |-> << >>]

\* CheckAuth has returned a permit after another task had recorded its
\* mismatching permissions in the shared default response.
C17_Witness ==
    /\ call.pc = "returned"
    /\ call.response.Auth
    /\ default_response.PermissionsMismatching # << >>

\* CheckAuth never holds the default response while a task it started is
\* still evaluating or still appending to it.
NoEarlyDeny ==
    (Returning /\ ~call.response.Auth) =>
        \A i \in DOMAIN tasks : tasks[i].pc = "done"

Forest == {engine.root_role} \cup allSubroles(State, engine.root_role)
ForestIDs == { mem.Role[r].ID : r \in Forest }

LoadFailed == last.op = "LoadRoleFromJSON" /\ last.err # NoError

\* C6: a LoadRoleFromJSON that returns an error leaves the name index and the
\* permission registry as they were: nothing of the subtree is visible.
C6_AtomicSubtreeLoad ==
    [][LoadFailed' =>
         /\ engine'.roles = engine.roles
         /\ engine'.permissions = engine.permissions]_vars

\* C7: loading a role whose identifier is carried by a role of the forest
\* fails with RoleAlreadyExists and changes nothing in the engine.
C7_DuplicateLoadRejected ==
    [][(last'.op = "LoadRoleFromJSON" /\ last'.id \in ForestIDs) =>
         /\ last'.err = RoleAlreadyExists
         /\ UNCHANGED engineVars]_vars

\* C8: no two distinct roles of the forest carry the same ID.
C8_UniqueRoleIDs ==
    \A r1, r2 \in Forest : mem.Role[r1].ID = mem.Role[r2].ID => r1 = r2

\* C9: every role of the forest except root has a Parent in the forest, and
\* the Subroles of every role are exactly the roles whose Parent it is.
C9_TreeShape ==
    /\ \A r \in Forest \ {engine.root_role} : mem.Role[r].Parent \in Forest
    /\ \A p \in Forest :
         mem.Role[p].Subroles = { r \in Forest : mem.Role[r].Parent = p }

\* C10: a Permission is in the permission registry exactly while some role of
\* the forest grants it.
C10_PermissionRegisteredWhileGranted ==
    \A p \in DOMAIN mem.Permission :
        (\E r \in Forest : p \in mem.Role[r].Permissions)
            <=> /\ mem.Permission[p].ID \in DOMAIN engine.permissions
                /\ engine.permissions[mem.Permission[p].ID] = p

RECURSIVE DescriptionIDs(_)
\* The role identifiers of a description.
DescriptionIDs(roleJSON) ==
    {roleJSON.ID} \cup UNION { DescriptionIDs(roleJSON.Subroles[i]) :
                                  i \in DOMAIN roleJSON.Subroles }

RECURSIVE LoadedAs(_, _, _)
\* In the role store `roles`, role carries the ID of the description and has
\* one subrole per nested description, each with Parent = role, held by no
\* other role, and itself loaded as its description.
LoadedAs(roles, role, roleJSON) ==
    /\ roles[role].ID = roleJSON.ID
    /\ Cardinality(roles[role].Subroles) = Len(roleJSON.Subroles)
    /\ \A i \in DOMAIN roleJSON.Subroles :
         \E c \in roles[role].Subroles :
            /\ roles[c].Parent = role
            /\ \A o \in DOMAIN roles : c \in roles[o].Subroles => o = role
            /\ LoadedAs(roles, c, roleJSON.Subroles[i])

\* The position of x in a sequence in which it occurs.
Position(seq, x) == CHOOSE i \in DOMAIN seq : seq[i] = x

LoadSucceeded == last.op = "LoadRoleFromJSON" /\ last.err = NoError

\* C22: after a LoadRoleFromJSON that succeeds, every identifier of the
\* description is in the name index, on a role of the loaded subtree; the top
\* role is a child of root; every nested role is a subrole of just the role
\* it was nested under, with Parent pointing to it; and the roles were stored
\* in the index descendants first, the top role last.
C22_LoadedSubtree ==
    [][LoadSucceeded' =>
         LET after == [engine |-> engine', mem |-> mem']
             top == last'.ret
             subtree == {top} \cup allSubroles(after, top)
             order == last'.registered
         IN  /\ \A id \in DescriptionIDs(last'.arg) :
                  /\ id \in DOMAIN engine'.roles
                  /\ engine'.roles[id] \in subtree
                  /\ mem'.Role[engine'.roles[id]].ID = id
             /\ top \in mem'.Role[engine'.root_role].Subroles
             /\ LoadedAs(mem'.Role, top, last'.arg)
             /\ Range(order) = subtree
             /\ Len(order) = Cardinality(subtree)
             /\ \A a \in subtree : \A d \in allSubroles(after, a) :
                  Position(order, d) < Position(order, a)]_vars

\* A description with a nested role has been loaded.
C22_Witness ==
    /\ LoadSucceeded
    /\ Len(last.arg.Subroles) > 0
    /\ Len(last.registered) > 1

\* The roles the name index points to.
Indexed == { engine.roles[id] : id \in DOMAIN engine.roles }

\* C13: detachRoleRecursively on a non-root role of the forest (a root-level
\* role included) succeeds, removes the role from its parent's child set,
\* removes the role and all its descendants from the name index, and leaves
\* every other role of the forest in the forest and under its index entry.
C13_DetachRemovesSubtree ==
    [][LET role == FindRoleNamed(State, last'.id)
           subtree == {role} \cup allSubroles(State, role)
       IN  (/\ last'.op = "detachRoleRecursively"
            /\ role \in Forest \ {engine.root_role}) =>
               /\ last'.err = NoError
               /\ mem.Role[role].Parent # Nil
               /\ role \notin mem'.Role[mem.Role[role].Parent].Subroles
               /\ Indexed' \cap subtree = {}
               /\ \A r \in Forest \ subtree :
                    /\ r \in Forest'
                    /\ \A id \in DOMAIN engine.roles :
                         engine.roles[id] = r =>
                            id \in DOMAIN engine'.roles /\ engine'.roles[id] = r]_vars

\* C23: the name index holds exactly the roles reachable from root through
\* Subroles, root included, each under its own ID.
C23_IndexIsForest ==
    /\ Indexed = Forest
    /\ \A id \in DOMAIN engine.roles : mem.Role[engine.roles[id]].ID = id

(***************************************************************************)
(* Properties of the catalog, checked under CatalogSpec.                   *)
(***************************************************************************)
\* The step is a second lookup `op` of the identifier the previous operation,
\* also a lookup `op`, asked for.
SecondLookup(op) == last.op = op /\ last'.op = op /\ last'.id = last.id

\* C11: two successive find-or-create lookups of the same Resource identifier,
\* and likewise of the same Service identifier, return the same object, and
\* the first lookup has registered the identifier under that object.
C11_FindOrCreateIdentity ==
    [][/\ SecondLookup("findOrCreateResource") =>
            /\ last'.ret = last.ret
            /\ findResource(State, last.id) = last.ret
       /\ SecondLookup("findOrCreateService") =>
            /\ last'.ret = last.ret
            /\ last.id \in DOMAIN engine.services
            /\ engine.services[last.id] = last.ret]_vars

\* C14: a ParseRequest whose request names a resource that the resource
\* registry does not resolve returns the error InvalidRequest: no request
\* with an unresolved Action.Resource is returned without that error.
C14_UnresolvedRequestRejected ==
    (last.op = "ParseRequest" /\ last.ret = Nil) => last.err = InvalidRequest

\* A required field of the action description is missing.
FieldMissing(actionJSON) ==
    actionJSON.Service = "" \/ actionJSON.Resource = << >> \/ actionJSON.Method = ""

\* C15: actionFromJSON on a description with a missing service, resource or
\* method returns InvalidAction and leaves the engine, its service and
\* resource registries included, untouched; on a complete description it
\* succeeds and the named Service is registered when it returns.
C15_ValidateBeforeCatalog ==
    [][last'.op = "actionFromJSON" =>
         IF FieldMissing(last'.id)
         THEN /\ last'.err = InvalidAction
              /\ UNCHANGED engineVars
         ELSE /\ last'.err = NoError
              /\ last'.id.Service \in DOMAIN engine'.services
              /\ last'.ret.Service = engine'.services[last'.id.Service]]_vars

\* An actionFromJSON call has failed on an incomplete description that names
\* a service no earlier call has registered, and another has succeeded before.
C15_Witness ==
    /\ last.op = "actionFromJSON"
    /\ last.err = InvalidAction
    /\ last.id.Service # ""
    /\ last.id.Service \notin DOMAIN engine.services
    /\ engine.services # EmptyMap

\* C24: the Service that the Action of a loaded permission points to is the
\* object registered under its ID in the service registry.
C24_ActionServiceIsRegistered ==
    \A p \in DOMAIN mem.Permission :
        LET service == mem.Permission[p].Action.Service IN
        service # Nil =>
            /\ mem.Service[service].ID \in DOMAIN engine.services
            /\ engine.services[mem.Service[service].ID] = service

(***************************************************************************)
(* Properties of the engine under concurrent callers (ConcurrentSpec).     *)
(***************************************************************************)
\* A CheckAuth call, or a task it has started, is still running.
InFlight ==
    \/ call.pc \in {"select", "defer_done", "defer_response"}
    \/ \E i \in DOMAIN tasks : tasks[i].pc \notin {"done", "panicked"}

\* C12: while a CheckAuth call or one of its tasks is running, no mutating
\* operation of the engine takes a step: the forest and the registries stay
\* as they are and no mutating operation returns.
C12_MutationsSerialized ==
    [][InFlight => UNCHANGED <<engineVars, last>>]_vars

(***************************************************************************)
(* Properties of addErrorJSON, checked under ResponseSpec.                 *)
(***************************************************************************)
\* C18: once addErrorJSON has run on a response that carries an error and a
\* code, the body is exactly {"error":<message>,"code":<code>}: the error's
\* message as a JSON string first, the code as a JSON number second, nothing
\* else.
C18_ErrorEnvelope ==
    response.Bytes # "" =>
        /\ response.Bytes = "{\"error\":" \o ToString(ErrorMessage(response))
                            \o ",\"code\":" \o ToString(response.Code) \o "}"
        /\ (response.InternalError = "example" /\ response.Code = 500)
              => response.Bytes = "{\"error\":\"example\",\"code\":500}"
        /\ (response.ExternalError = "user error" /\ response.Code = 400)
              => response.Bytes = "{\"error\":\"user error\",\"code\":400}"

\* addErrorJSON has run on a response with an external error and code 400.
C18_Witness ==
    /\ response.ExternalError = "user error"
    /\ response.Code = 400
    /\ response.Bytes # ""

(***************************************************************************)
(* Properties of the handlers, checked under ServerSpec.                   *)
(***************************************************************************)
Logged(level) == \E i \in DOMAIN http.logs : http.logs[i].level = level

\* C19: a handler that writes an error response with a 5xx code has logged at
\* error level, and one that writes an error response with a 4xx code has
\* logged at informational level and not at error level.
C19_LogLevelFollowsCode ==
    \A i \in DOMAIN http.writes :
        LET w == http.writes[i] IN
        w.Message # NoError =>
            IF w.Code >= 500
            THEN Logged(LevelError)
            ELSE Logged(LevelInfo) /\ ~Logged(LevelError)

\* The request served is a resource-create whose body parses but has no path,
\* or a subresource-create whose body parses but has no name.
RequiredFieldMissing(h) ==
    \/ /\ h.handler = "handleResourceCreate"
       /\ h.request.json = NoError
       /\ h.request.Path = << >>
    \/ /\ h.handler = "handleSubresourceCreate"
       /\ h.request.json = NoError
       /\ h.request.Name = ""

\* C20: a resource-create request without a path and a subresource-create
\* request without a name get one response, the error MissingRequiredField
\* with code 400, and the handler calls no store operation: the stored
\* resources are as they were.
C20_MissingFieldNeverStored ==
    [][RequiredFieldMissing(http') =>
         /\ Len(http'.writes) = 1
         /\ http'.writes[1].Code = 400
         /\ http'.writes[1].Message =
                IF http'.handler = "handleResourceCreate"
                THEN missingRequiredField("resource", "path")
                ELSE missingRequiredField("resource", "name")
         /\ http'.dbCalls = << >>
         /\ db' = db]_vars

\* A subresource-create without a name and a resource-create without a path
\* have been refused while the store holds resources.
C20_Witness ==
    /\ RequiredFieldMissing(http)
    /\ http.writes[1].Code = 400
    /\ db.resources # {}

\* C25: a handler gives one status outcome per request: an error response
\* it has written is the last thing it writes, and it writes at most once;
\* handleHealth writes the 500 error response alone when the ping failed and
\* status 200 alone when it succeeded.
C25_OneStatusOutcome ==
    /\ Len(http.writes) <= 1
    /\ \A i \in DOMAIN http.writes :
         http.writes[i].Message # NoError => i = Len(http.writes)
    /\ http.handler = "handleHealth" =>
         \/ http.writes = << WriteHeader(200) >>
         \/ http.writes = << newErrorResponse("database unavailable", 500) >>

ReadHandlers == {"handlePolicyRead", "handleResourceRead", "handleRoleRead"}

\* C26: a read handler whose storage query came back with an error answers
\* 500, and answers 404 only when the query came back without an error and
\* without a result.
C26_QueryFailureIs500 ==
    http.handler \in ReadHandlers =>
        /\ http.dbCalls[1].err # NoError => http.writes[1].Code = 500
        /\ http.writes[1].Code = 404 => http.dbCalls[1].err = NoError

====
